---------------------------- MODULE Spec2Model ----------------------------
(***************************************************************************)
(* A model of the Dash callback generate_chart of ai_chart_builder.py:     *)
(* prompt validation, the single provider completion call, the text        *)
(* sanitization of the completion, exec of the sanitized code, the lookup  *)
(* of 'fig', and the classification of a caught exception by its text.     *)
(*                                                                         *)
(* A text is the sequence of its characters (Text("ab") = <<"a", "b">>)    *)
(* and every text operation works on characters. A TLA+ string literal     *)
(* cannot hold the backquote (U+0060), so the model writes that one        *)
(* character as "~"; no text of the model uses "~" for anything else.      *)
(***************************************************************************)
EXTENDS Integers, Sequences, FiniteSets, TLC

VARIABLES
    AI_PROVIDER,   \* module constant of line 23, fixed at process start
    figure,        \* Output('output-chart', 'figure') as last written
    error,         \* Output('error', 'children') as last written
    feedback,      \* Output('feedback', 'children') as last written
    retry_style,   \* Output('retry', 'style') as last written
    pc,            \* position of the running callback, "idle" between invocations
    prompt,        \* State('prompt', 'value'): None or a text
    selected_model,\* fourth argument of the callback
    request,       \* keyword arguments of the completion call made
    response,      \* response.choices[0].message.content
    code,          \* local variable code
    local_fig,     \* local_vars.get('fig') after exec
    exc,           \* the exception the except clause caught last (line 263 prints it)
    calls,         \* completion calls made by the current invocation
    execs,         \* exec calls made by the current invocation
    outcome        \* how the last invocation ended

vars == <<AI_PROVIDER, figure, error, feedback, retry_style, pc, prompt,
          selected_model, request, response, code, local_fig, exc, calls, execs,
          outcome>>

-----------------------------------------------------------------------------
(* Bound of the model: the number of lines of a completion's body.         *)
MaxLines == 2

-----------------------------------------------------------------------------
(* Python values                                                           *)

None == <<>>
Some(v) == <<v>>
IsNone(o) == o = <<>>
Value(o) == o[1]

\* the text of a string literal
Text(literal) == [i \in 1..Len(literal) |-> SubSeq(literal, i, i)] \o <<>>

Empty == <<>>

\* Python objects other than texts, by their type
PyNone == [type |-> "NoneType"]
EmptyFigure == [type |-> "dict"]
PlotlyFigure == [type |-> "Figure"]

Whitespace == {" ", "\t", "\n", "\r"}

BackQuote == "~"

Min(S) == CHOOSE x \in S : \A y \in S : x <= y

\* str.strip()
Strip(s) ==
    LET n == Len(s)
        ink == \E i \in 1..n : s[i] \notin Whitespace
        first == CHOOSE i \in 1..n :
                     /\ s[i] \notin Whitespace
                     /\ \A j \in 1..(i - 1) : s[j] \in Whitespace
        back == CHOOSE k \in 0..(n - 1) :
                     /\ s[n - k] \notin Whitespace
                     /\ \A j \in (n - k + 1)..n : s[j] \in Whitespace
    IN  IF ink THEN SubSeq(s, first, n - back) ELSE Empty

\* sub, which is not empty, occurs in s at index i
OccursAt(s, sub, i) ==
    /\ s[i] = sub[1]
    /\ \A k \in 2..Len(sub) : s[i + k - 1] = sub[k]

\* the indices at which sub, which is not empty, occurs in s
Occurrences(s, sub) == {i \in 1..(Len(s) - Len(sub) + 1) : OccursAt(s, sub, i)}

\* str.startswith(p)
StartsWith(s, p) == Len(p) <= Len(s) /\ \A k \in 1..Len(p) : s[k] = p[k]

\* str.find(sub) + 1: the index of the first occurrence of sub in s, 0 when
\* there is none
Find(s, sub) ==
    LET at == Occurrences(s, sub) IN IF at = {} THEN 0 ELSE Min(at)

\* sub in s
Contains(s, sub) == \E i \in 1..(Len(s) - Len(sub) + 1) : OccursAt(s, sub, i)

\* str.replace(sub, "")
RECURSIVE Remove(_, _)
Remove(s, sub) ==
    LET i == Find(s, sub)
    IN  IF i = 0 THEN s
        ELSE SubSeq(s, 1, i - 1) \o Remove(SubSeq(s, i + Len(sub), Len(s)), sub)

UpperCase == Text("ABCDEFGHIJKLMNOPQRSTUVWXYZ")
LowerCase == Text("abcdefghijklmnopqrstuvwxyz")

\* the lower-case letter of each upper-case letter
LowerOf ==
    [c \in {UpperCase[i] : i \in 1..Len(UpperCase)} |->
        LowerCase[CHOOSE i \in 1..Len(UpperCase) : UpperCase[i] = c]]

LowerChar(c) == IF c \in DOMAIN LowerOf THEN LowerOf[c] ELSE c

\* str.lower()
Lower(s) == [i \in 1..Len(s) |-> LowerChar(s[i])] \o <<>>

NewLine == <<"\n">>

\* str.split('\n')
RECURSIVE Split(_)
Split(s) ==
    LET i == Find(s, NewLine)
    IN  IF i = 0 THEN <<s>>
        ELSE <<SubSeq(s, 1, i - 1)>> \o Split(SubSeq(s, i + 1, Len(s)))

\* '\n'.join(lines)
RECURSIVE Join(_)
Join(lines) ==
    IF lines = <<>> THEN Empty
    ELSE IF Len(lines) = 1 THEN lines[1]
    ELSE lines[1] \o NewLine \o Join(Tail(lines))

-----------------------------------------------------------------------------
(* Sanitization of the completion text, lines 207-225                      *)

FenceMarker == <<BackQuote, BackQuote, BackQuote>>
LanguageTag == Text("python")

\* re.sub(r"```(?:python)?|```", "", code): leftmost matches, left to right,
\* the first alternative (marker with an optional language tag) tried first
RECURSIVE RemoveFences(_)
RemoveFences(s) ==
    LET i == Find(s, FenceMarker)
        rest == SubSeq(s, i + 3, Len(s))
    IN  IF i = 0 THEN s
        ELSE SubSeq(s, 1, i - 1)
             \o RemoveFences(IF StartsWith(rest, LanguageTag)
                             THEN SubSeq(rest, Len(LanguageTag) + 1, Len(rest))
                             ELSE rest)

unwanted_lines ==
    << Text("YF.download() has changed argument auto_adjust default to True"),
       Text("[*********************100%***********************]  1 of 1 completed") >>

\* for unwanted in unwanted_lines: code = code.replace(unwanted, "")
RECURSIVE RemoveNoise(_, _)
RemoveNoise(s, unwanted) ==
    IF unwanted = <<>> THEN s
    ELSE RemoveNoise(Remove(s, Head(unwanted)), Tail(unwanted))

unwanted_starts ==
    << Text("here is"), Text("below is"), Text("the code"), Text("this code"),
       Text("note:") >>

\* the markers compared with the line as written: line.lower() forgotten
HasUnwantedStart_CaseSensitive(line) ==
    \E k \in 1..Len(unwanted_starts) : StartsWith(line, unwanted_starts[k])

\* any(line.lower().startswith(start.lower()) for start in unwanted_starts)
HasUnwantedStart(line) ==
    LET lowered == Lower(line)
    IN  \E k \in 1..Len(unwanted_starts) :
            StartsWith(lowered, Lower(unwanted_starts[k]))

\* the condition without its second test: blank lines are kept
KeepLine_BlankKept(line) == ~HasUnwantedStart(line)

\* the condition of the list comprehension of lines 220-224
KeepLine(line) == ~HasUnwantedStart(line) /\ Strip(line) # Empty

\* the list comprehension of lines 220-224
RECURSIVE FilterLines(_)
FilterLines(lines) ==
    IF lines = <<>> THEN <<>>
    ELSE IF KeepLine(Head(lines)) THEN <<Head(lines)>> \o FilterLines(Tail(lines))
    ELSE FilterLines(Tail(lines))

\* code after line 216: stripped, fences removed, stripped, noise removed
Cleaned(raw) == RemoveNoise(Strip(RemoveFences(Strip(raw))), unwanted_lines)

\* code_lines of line 220
CodeLines(raw) == FilterLines(Split(Cleaned(raw)))

\* code after line 225
Sanitize(raw) == Join(CodeLines(raw))

-----------------------------------------------------------------------------
(* Exceptions, and exec of the sanitized code, line 235                    *)

\* an exception: its class, whether the class derives from Exception (what
\* "except Exception" of line 243 catches) and str(e)
Raise(type, isException, text) ==
    [type |-> type, isException |-> isException, text |-> text]

NoException == Raise("", TRUE, Empty)

Digits == Text("0123456789")

\* str(n) of a natural number
RECURSIVE Str(_)
Str(n) ==
    IF n < 10 THEN <<Digits[n + 1]>>
    ELSE Str(n \div 10) \o <<Digits[(n % 10) + 1]>>

\* the statements that the lines of the completions hold
BindNone == Text("fig = None")
BindFigure == Text("fig = px.line()")
BindUndefined == Text("fig = undefined_name")
BindOther == Text("x = 1")
RaiseSystemExit == Text("raise SystemExit")
RaiseRuntimeError == Text("raise RuntimeError('API quota')")

Statements ==
    {BindNone, BindFigure, BindUndefined, BindOther, RaiseSystemExit, RaiseRuntimeError}

UnexpectedIndentText(n) ==
    Text("unexpected indent (<string>, line ") \o Str(n) \o Text(")")
InvalidSyntaxText(n) ==
    Text("invalid syntax (<string>, line ") \o Str(n) \o Text(")")

\* compile() of the code (exec compiles the whole text before it runs any of
\* it): the SyntaxError of the first line that is neither blank nor a
\* statement, an IndentationError when that line is an indented statement
CompileError(lines) ==
    LET bad == {i \in 1..Len(lines) :
                    Strip(lines[i]) # Empty /\ lines[i] \notin Statements}
        n == Min(bad)
    IN  IF bad = {} THEN NoException
        ELSE IF lines[n][1] = " " /\ Strip(lines[n]) \in Statements
        THEN Raise("IndentationError", TRUE, UnexpectedIndentText(n))
        ELSE Raise("SyntaxError", TRUE, InvalidSyntaxText(n))

\* the result of exec: the exception raised (NoException when none) and what
\* local_vars holds for 'fig': Unbound (no such key) or BoundTo(an object)
ExecResult(e, fig) == [raised |-> e, fig |-> fig]

Unbound == None
BoundTo(v) == Some(v)

UndefinedNameText == Text("name 'undefined_name' is not defined")
ApiQuotaText == Text("API quota")

\* running the compiled statements in order, in the namespace of line 234
RECURSIVE Run(_, _)
Run(lines, fig) ==
    IF lines = <<>> THEN ExecResult(NoException, fig)
    ELSE LET line == Head(lines) IN
         CASE line = BindNone -> Run(Tail(lines), BoundTo(PyNone))
           [] line = BindFigure -> Run(Tail(lines), BoundTo(PlotlyFigure))
           [] line = BindOther -> Run(Tail(lines), fig)
           [] line = BindUndefined ->
                  ExecResult(Raise("NameError", TRUE, UndefinedNameText), fig)
           [] line = RaiseRuntimeError ->
                  ExecResult(Raise("RuntimeError", TRUE, ApiQuotaText), fig)
           [] line = RaiseSystemExit ->
                  ExecResult(Raise("SystemExit", FALSE, Empty), fig)
           [] OTHER -> Run(Tail(lines), fig)

\* exec(code, {}, local_vars)
Exec(text) ==
    LET lines == Split(text)
        e == CompileError(lines)
    IN  IF e # NoException THEN ExecResult(e, Unbound) ELSE Run(lines, Unbound)

-----------------------------------------------------------------------------
(* The except clause, lines 243-264                                        *)

ErrorPrefix == Text("Error: An issue occurred while generating the chart. ")
ApiMessage == Text("Please check your API key or network connection.")
InvalidCodeMessage ==
    Text("The AI generated invalid code. Please refine your prompt and try again.")
ExtraTextMessage ==
    Text("The AI included extra text instead of just code. Please try again or adjust the prompt.")
NoChartMessage ==
    Text("The chart could not be created. Check if the data or prompt is valid, ")
    \o Text("or try a different chart type.")
UnexpectedOpening == Text("Unexpected error: ")
UnexpectedClosing == Text(". Please try a different prompt or contact support.")
UnexpectedMessage(text) == UnexpectedOpening \o text \o UnexpectedClosing

EmptyPromptMessage == Text("Error: Please enter a prompt.")
EmptyCodeText == Text("No valid code remaining after filtering.")
MissingFigureText ==
    Text("Failed to generate a valid Plotly figure. The figure object is None.")
NoneStripText == Text("'NoneType' object has no attribute 'strip'")

ApiMark == Text("API")
ProviderMarks == {Text("azure"), Text("groq"), Text("openai")}
InvalidSyntaxMark == Text("invalid syntax")
NameErrorMark == Text("NameError")
UnexpectedTextMark == Text("unexpected text")
NoValidCodeMark == Text("No valid code")
NoFigureMark == Text("Failed to generate a valid Plotly figure")

\* the test of line 246
IsProviderText(text) ==
    LET lowered == Lower(text)
    IN  \/ Contains(text, ApiMark)
        \/ \E p \in ProviderMarks : Contains(lowered, p)

\* the test of line 248
IsInvalidCodeText(text) ==
    Contains(text, InvalidSyntaxMark) \/ Contains(text, NameErrorMark)

\* the test of line 250
IsExtraText(text) == Contains(text, UnexpectedTextMark)

\* the test of line 252
IsNoChartText(text) ==
    Contains(text, NoValidCodeMark) \/ Contains(text, NoFigureMark)

\* the first two tests in the other order
Classify_CodeTestFirst(text) ==
    ErrorPrefix \o
        ( IF IsInvalidCodeText(text) THEN InvalidCodeMessage
          ELSE IF IsProviderText(text) THEN ApiMessage
          ELSE IF IsExtraText(text) THEN ExtraTextMessage
          ELSE IF IsNoChartText(text) THEN NoChartMessage
          ELSE UnexpectedMessage(text) )

\* error_msg as built by lines 244-261 from str(e)
Classify(text) ==
    ErrorPrefix \o
        ( IF IsProviderText(text) THEN ApiMessage
          ELSE IF IsInvalidCodeText(text) THEN InvalidCodeMessage
          ELSE IF IsExtraText(text) THEN ExtraTextMessage
          ELSE IF IsNoChartText(text) THEN NoChartMessage
          ELSE UnexpectedMessage(text) )

-----------------------------------------------------------------------------
(* What the callback is given: the prompt, the model choice, and what the  *)
(* provider's completion endpoint does                                     *)

Providers == {"azure", "groq", "openai"}

Prompts ==
    {None, Some(Empty), Some(Text("  ")), Some(Text(" \n\t")),
     Some(Text("sales by month"))}

\* values of the model dropdown: cleared, or one of its options
Models == {None, Some("gpt-4o-mini")}

\* the lines a completion's body is made of
Lines ==
    { Text("Here is the code:"),
      Text("Sure!"),
      unwanted_lines[1] \o <<" ">> \o unwanted_lines[2],
      BindNone,
      BindFigure,
      BindUndefined,
      <<" ">> \o BindOther,
      RaiseSystemExit,
      RaiseRuntimeError }

Bodies == UNION {[1..n -> Lines] : n \in 0..MaxLines}

\* a body as the model returns it: bare, or inside a fence that opens with
\* the language tag
Wrappers == {"bare", "python fence"}

Wrap(w, body) ==
    CASE w = "bare" -> body
      [] w = "python fence" ->
             FenceMarker \o LanguageTag \o NewLine \o body \o NewLine \o FenceMarker

\* response.choices[0].message.content: a text, or None
Contents == {None} \cup {Some(Wrap(w, Join(b))) : w \in Wrappers, b \in Bodies}

\* exceptions of the SDKs for a failed connection and for a timeout
NetworkExceptions ==
    { Raise("APIConnectionError", TRUE, Text("Connection error.")),
      Raise("APITimeoutError", TRUE, Text("Request timed out.")) }

\* what client.chat.completions.create may raise
ProviderExceptions ==
    NetworkExceptions \cup
    { Raise("AuthenticationError", TRUE,
            Text("Error code: 401 - Incorrect API key provided")),
      Raise("RateLimitError", TRUE,
            Text("Error code: 429 - see platform.openai.com")),
      Raise("Exception", TRUE, Text("NameError raised by the API")),
      Raise("Exception", TRUE, Text("unexpected text after invalid syntax")),
      Raise("Exception", TRUE, Text("No valid code, only unexpected text")) }

UserContentOpening == Text("Generate only the Plotly Express Python code for: ")
UserContentClosing == Text(". No explanations or text, just the code.")

\* the keyword arguments of the completion call, lines 142-204
Request(provider, p, m) ==
    LET content == UserContentOpening \o p \o UserContentClosing
    IN  CASE provider = "azure" ->
                 [content |-> content, model |-> "os.getenv(DEPLOYMENT_NAME)",
                  max_tokens |-> 500, timeout |-> None]
          [] provider = "groq" ->
                 [content |-> content,
                  model |-> "meta-llama/llama-4-scout-17b-16e-instruct",
                  max_tokens |-> 4096, timeout |-> Some(30)]
          [] OTHER ->
                 [content |-> content,
                  model |-> IF IsNone(m) THEN "gpt-4o" ELSE Value(m),
                  max_tokens |-> 500, timeout |-> None]

\* the test without the strip: "if not prompt"
IsEmptyPrompt_NoStrip(p) == IsNone(p) \/ Value(p) = Empty

\* not prompt or not prompt.strip(), line 133
IsEmptyPrompt(p) == IsNone(p) \/ Value(p) = Empty \/ Strip(Value(p)) = Empty

-----------------------------------------------------------------------------
(* The callback                                                            *)

Init ==
    /\ AI_PROVIDER \in Providers
    /\ figure = None
    /\ error = None
    /\ feedback = None
    /\ retry_style = "none"
    /\ pc = "idle"
    /\ prompt = None
    /\ selected_model = None
    /\ request = None
    /\ response = None
    /\ code = Empty
    /\ local_fig = Unbound
    /\ exc = NoException
    /\ calls = 0
    /\ execs = 0
    /\ outcome = "none"

\* the locals of the callback are gone when it ends
DropLocals ==
    /\ request' = None
    /\ response' = None
    /\ code' = Empty
    /\ local_fig' = Unbound

\* return a, b, c, d: Dash writes the four outputs
Return(fig, msg, fb, style, how) ==
    /\ figure' = Some(fig)
    /\ error' = Some(msg)
    /\ feedback' = Some(fb)
    /\ retry_style' = style
    /\ outcome' = how
    /\ pc' = "idle"
    /\ DropLocals

\* a click on Generate Chart, or on Retry while it is displayed, starts the
\* callback (ctx.triggered is then non-empty); lines 121-138
Trigger(button, p, m) ==
    /\ pc = "idle"
    /\ button = "retry" => retry_style = "block"
    /\ prompt' = p
    /\ selected_model' = IF AI_PROVIDER = "groq" THEN p ELSE m
    /\ exc' = NoException
    /\ calls' = 0
    /\ execs' = 0
    /\ IF IsEmptyPrompt(p)
       THEN Return(EmptyFigure, EmptyPromptMessage, Empty, "none", "rejected")
       ELSE /\ pc' = "call"
            /\ outcome' = "running"
            /\ UNCHANGED <<figure, error, feedback, retry_style, request, response,
                           code, local_fig>>
    /\ UNCHANGED AI_PROVIDER

\* a failed call tried once more before the exception is let through
CallRaises_Retried(e) ==
    /\ pc = "call"
    /\ request' = Some(Request(AI_PROVIDER, Value(prompt), selected_model))
    /\ calls' = calls + 1
    /\ IF calls = 0 THEN pc' = "call" /\ exc' = exc ELSE pc' = "except" /\ exc' = e
    /\ UNCHANGED <<AI_PROVIDER, figure, error, feedback, retry_style, prompt,
                   selected_model, response, code, local_fig, execs, outcome>>

\* client.chat.completions.create(...), lines 142-204, raises
CallRaises(e) ==
    /\ pc = "call"
    /\ request' = Some(Request(AI_PROVIDER, Value(prompt), selected_model))
    /\ calls' = calls + 1
    /\ exc' = e
    /\ pc' = "except"
    /\ UNCHANGED <<AI_PROVIDER, figure, error, feedback, retry_style, prompt,
                   selected_model, response, code, local_fig, execs, outcome>>

\* client.chat.completions.create(...), lines 142-204, returns
CallReturns(content) ==
    /\ pc = "call"
    /\ request' = Some(Request(AI_PROVIDER, Value(prompt), selected_model))
    /\ calls' = calls + 1
    /\ response' = Some(content)
    /\ pc' = "clean"
    /\ UNCHANGED <<AI_PROVIDER, figure, error, feedback, retry_style, prompt,
                   selected_model, code, local_fig, exc, execs, outcome>>

\* lines 207-231
Clean ==
    /\ pc = "clean"
    /\ LET content == Value(response) IN
       IF IsNone(content)
       THEN /\ exc' = Raise("AttributeError", TRUE, NoneStripText)
            /\ pc' = "except"
            /\ code' = code
       ELSE /\ code' = Sanitize(Value(content))
            /\ IF code' = Empty
               THEN exc' = Raise("ValueError", TRUE, EmptyCodeText) /\ pc' = "except"
               ELSE exc' = exc /\ pc' = "exec"
    /\ UNCHANGED <<AI_PROVIDER, figure, error, feedback, retry_style, prompt,
                   selected_model, request, response, local_fig, calls, execs, outcome>>

\* lines 234-235; an exception that is no Exception passes the except clause
\* of line 243 and leaves the callback, which writes no output
Execute ==
    /\ pc = "exec"
    /\ execs' = execs + 1
    /\ LET r == Exec(code) IN
       IF r.raised = NoException
       THEN /\ local_fig' = r.fig
            /\ pc' = "lookup"
            /\ UNCHANGED <<exc, outcome, request, response, code>>
       ELSE IF r.raised.isException
       THEN /\ local_fig' = r.fig
            /\ exc' = r.raised
            /\ pc' = "except"
            /\ UNCHANGED <<outcome, request, response, code>>
       ELSE /\ pc' = "idle"
            /\ outcome' = "escaped"
            /\ DropLocals
            /\ exc' = exc
    /\ UNCHANGED <<AI_PROVIDER, figure, error, feedback, retry_style, prompt,
                   selected_model, calls>>

\* the lookup without its second test: a 'fig' that is None is returned
Lookup_NoneReturned ==
    /\ pc = "lookup"
    /\ IF local_fig = Unbound
       THEN /\ exc' = Raise("ValueError", TRUE, MissingFigureText)
            /\ pc' = "except"
            /\ UNCHANGED <<figure, error, feedback, retry_style, outcome, request,
                           response, code, local_fig>>
       ELSE /\ Return(Value(local_fig), Empty, Empty, "none", "chart")
            /\ exc' = exc
    /\ UNCHANGED <<AI_PROVIDER, prompt, selected_model, calls, execs>>

\* lines 237-241
Lookup ==
    /\ pc = "lookup"
    /\ IF local_fig = Unbound \/ local_fig = BoundTo(PyNone)
       THEN /\ exc' = Raise("ValueError", TRUE, MissingFigureText)
            /\ pc' = "except"
            /\ UNCHANGED <<figure, error, feedback, retry_style, outcome, request,
                           response, code, local_fig>>
       ELSE /\ Return(Value(local_fig), Empty, Empty, "none", "chart")
            /\ exc' = exc
    /\ UNCHANGED <<AI_PROVIDER, prompt, selected_model, calls, execs>>

\* lines 243-264
Except ==
    /\ pc = "except"
    /\ Return(EmptyFigure, Classify(exc.text), Empty, "block", "failed")
    /\ UNCHANGED <<AI_PROVIDER, prompt, selected_model, exc, calls, execs>>

\* the user acts only between invocations; the provider answers only a call
Next ==
    \/ /\ pc = "idle"
       /\ \E button \in {"submit", "retry"}, p \in Prompts, m \in Models :
              Trigger(button, p, m)
    \/ /\ pc = "call"
       /\ \E e \in ProviderExceptions : CallRaises(e)
    \/ /\ pc = "call"
       /\ \E content \in Contents : CallReturns(content)
    \/ Clean
    \/ Execute
    \/ Lookup
    \/ Except

Spec == Init /\ [][Next]_vars

-----------------------------------------------------------------------------
(* Properties                                                              *)

\* a prompt that is missing, empty or made of whitespace only
BlankPrompt(p) == IsNone(p) \/ \A i \in 1..Len(Value(p)) : Value(p)[i] \in Whitespace

\* the callback has ended at least once and none is running
Ended == pc = "idle" /\ outcome # "none"

\* the provider returned a text
HasContent == response # None /\ Value(response) # None

\* C1: an invocation whose prompt is missing, empty or whitespace-only makes
\* no completion call, and ends with the empty figure and the message that
\* asks for a prompt.
C1_BlankPromptRejected ==
    BlankPrompt(prompt) =>
        /\ pc = "idle"
        /\ calls = 0
        /\ request = None
        /\ outcome # "none" =>
               /\ outcome = "rejected"
               /\ figure = Some(EmptyFigure)
               /\ error = Some(EmptyPromptMessage)

C1_Witness ==
    /\ outcome = "rejected"
    /\ prompt = Some(Text(" \n\t"))
    /\ calls = 0
    /\ error = Some(EmptyPromptMessage)

\* C2: sanitizing a sanitized text returns it unchanged.
C2_SanitizeIdempotent ==
    (pc \in {"exec", "lookup", "except"} /\ HasContent) => Sanitize(code) = code

\* C3: when nothing is left after sanitization the callback fails with the
\* empty-code error and does not call exec; exec is called with a non-empty
\* text only.
C3_EmptyCodeNeverExecuted ==
    /\ (pc \in {"exec", "lookup", "except"} /\ HasContent /\ code = Empty) =>
           /\ pc = "except"
           /\ exc = Raise("ValueError", TRUE, EmptyCodeText)
           /\ execs = 0
    /\ (pc # "idle" /\ (execs > 0 \/ pc = "exec")) =>
           /\ code # Empty
           /\ \E i \in 1..Len(code) : code[i] \notin Whitespace
    /\ (Ended /\ exc.text = EmptyCodeText) =>
           /\ outcome = "failed"
           /\ execs = 0
           /\ error = Some(ErrorPrefix \o NoChartMessage)

FencedNoise ==
    FenceMarker \o LanguageTag \o NewLine \o Text("Here is the code:") \o NewLine
    \o unwanted_lines[1] \o <<" ">> \o unwanted_lines[2] \o NewLine \o FenceMarker

C3_Witness ==
    /\ pc = "except"
    /\ response = Some(Some(FencedNoise))
    /\ code = Empty
    /\ exc.text = EmptyCodeText
    /\ execs = 0

FencedBindNone ==
    FenceMarker \o LanguageTag \o NewLine \o BindNone \o NewLine \o FenceMarker

\* C4: code that runs to its end and leaves 'fig' unbound or None makes the
\* callback fail with the missing-figure error and return the empty figure;
\* a chart is returned only for a 'fig' that is bound and not None; the
\* python-tagged fence around 'fig = None' sanitizes to 'fig = None', runs,
\* and fails that way.
C4_MissingFigureFails ==
    /\ (pc = "except" /\ execs = 1) =>
           LET r == Exec(code) IN
           (r.raised = NoException /\ r.fig \in {Unbound, BoundTo(PyNone)}) =>
               /\ exc = Raise("ValueError", TRUE, MissingFigureText)
               /\ local_fig = r.fig
    /\ (Ended /\ exc.text = MissingFigureText) =>
           /\ outcome = "failed"
           /\ figure = Some(EmptyFigure)
           /\ error = Some(ErrorPrefix \o NoChartMessage)
    /\ (Ended /\ outcome = "chart") => figure = Some(PlotlyFigure)
    /\ figure \notin {Some(PyNone)}
    /\ (HasContent /\ Value(Value(response)) = FencedBindNone) =>
           /\ pc \in {"exec", "lookup", "except"} => code = BindNone
           /\ pc = "lookup" => local_fig = BoundTo(PyNone)
           /\ pc = "except" => exc.text = MissingFigureText /\ execs = 1

C4_Witness ==
    /\ pc = "except"
    /\ response = Some(Some(FencedBindNone))
    /\ code = BindNone
    /\ execs = 1
    /\ local_fig = BoundTo(PyNone)
    /\ exc.text = MissingFigureText

\* C5: no failure leaves the callback: whatever the provider call, the
\* sanitization, the executed code or the lookup raises, the callback ends
\* with the empty figure and a non-empty error message.
C5_NoFailureEscapes ==
    (Ended /\ outcome \notin {"rejected", "chart"}) =>
        /\ outcome = "failed"
        /\ figure = Some(EmptyFigure)
        /\ error # None /\ Value(error) # Empty

\* C6: when the completion call raises a network exception the callback
\* returns the API/network message, shows the retry button and clears the
\* chart.
C6_NetworkErrorIsApiMessage ==
    (Ended /\ outcome = "failed" /\ execs = 0 /\ exc \in NetworkExceptions) =>
        /\ error = Some(ErrorPrefix \o ApiMessage)
        /\ retry_style = "block"
        /\ figure = Some(EmptyFigure)

\* C7: when the executed code raises a NameError the callback returns the
\* invalid-code message, not the generic one.
C7_NameErrorIsInvalidCode ==
    (Ended /\ outcome = "failed" /\ execs = 1 /\ exc.type = "NameError") =>
        error = Some(ErrorPrefix \o InvalidCodeMessage)

\* the model name each provider's branch passes
ModelOf(provider) ==
    CASE provider = "azure" -> {"os.getenv(DEPLOYMENT_NAME)"}
      [] provider = "groq" -> {"meta-llama/llama-4-scout-17b-16e-instruct"}
      [] provider = "openai" -> {"gpt-4o", "gpt-4o-mini"}

\* C8: an invocation with a non-empty prompt calls the completion endpoint
\* of the configured provider exactly once; a failed call is not repeated,
\* and only a new click leads to another call.
C8_ExactlyOneCall ==
    /\ calls \in {0, 1}
    /\ pc = "call" => calls = 0 /\ request = None
    /\ pc \in {"clean", "exec", "lookup", "except"} =>
           /\ calls = 1
           /\ request # None
           /\ Value(request).model \in ModelOf(AI_PROVIDER)
    /\ (Ended /\ ~BlankPrompt(prompt)) => calls = 1
    /\ (pc = "except" /\ response = None) => calls = 1 /\ execs = 0

C8_Witness ==
    /\ Ended
    /\ outcome = "failed"
    /\ AI_PROVIDER = "groq"
    /\ exc \in NetworkExceptions
    /\ retry_style = "block"
    /\ calls = 1

\* a line made of whitespace only, or of nothing
BlankLine(line) == \A i \in 1..Len(line) : line[i] \in Whitespace

\* the line begins with the marker, letter case apart
BeginsWith(line, marker) ==
    /\ Len(line) >= Len(marker)
    /\ \A k \in 1..Len(marker) : LowerChar(line[k]) = marker[k]

PreambleLine(line) ==
    \E marker \in { Text("here is"), Text("below is"), Text("the code"),
                    Text("this code"), Text("note:") } : BeginsWith(line, marker)

\* the lines of kept, which are those of before that are neither blank nor
\* preamble, unchanged and in the order of before
IsFiltered(before, kept) ==
    LET keep == {i \in 1..Len(before) :
                     ~BlankLine(before[i]) /\ ~PreambleLine(before[i])}
        nth(j) == CHOOSE i \in keep : Cardinality({x \in keep : x <= i}) = j
    IN  /\ Len(kept) = Cardinality(keep)
        /\ \A j \in 1..Len(kept) : kept[j] = before[nth(j)]

PreambleThenFigure == Text("Here is the code:") \o NewLine \o BindFigure

\* C9: the line filter drops the lines that begin with a preamble marker,
\* letter case apart, and the blank lines, and keeps the other lines unchanged
\* and in order; a first line 'Here is the code:' is dropped and the code
\* after it is executed.
C9_LineFilter ==
    /\ (HasContent /\ (pc = "exec" \/ (pc = "except" /\ code = Empty))) =>
           LET before == Split(Cleaned(Value(Value(response))))
               kept == IF code = Empty THEN <<>> ELSE Split(code)
           IN  /\ IsFiltered(before, kept)
               /\ \A j \in 1..Len(kept) :
                      ~BlankLine(kept[j]) /\ ~PreambleLine(kept[j])
    /\ (HasContent /\ pc = "lookup"
            /\ Value(Value(response)) = PreambleThenFigure) =>
           /\ code = BindFigure
           /\ execs = 1
           /\ local_fig = BoundTo(PlotlyFigure)

C9_Witness ==
    /\ pc = "lookup"
    /\ response = Some(Some(PreambleThenFigure))
    /\ code = BindFigure
    /\ execs = 1
    /\ local_fig = BoundTo(PlotlyFigure)

Has(text, marks) == \E mark \in marks : Contains(text, mark)

\* C10: the message of a caught error is decided by the first of four tests
\* of its text that holds, in their order, and is the generic message with
\* the text in it when none holds; so the empty-code and missing-figure
\* errors get the fourth message, and an error of the executed code whose
\* text passes the first test gets the API message.
C10_FirstMatchClassification ==
    (Ended /\ outcome = "failed") =>
        LET text == exc.text
            t1 == Has(text, {Text("API")})
                  \/ Has(Lower(text), {Text("azure"), Text("groq"), Text("openai")})
            t2 == Has(text, {Text("invalid syntax"), Text("NameError")})
            t3 == Has(text, {Text("unexpected text")})
            t4 == Has(text, {Text("No valid code"),
                             Text("Failed to generate a valid Plotly figure")})
            message == SubSeq(Value(error), Len(ErrorPrefix) + 1, Len(Value(error)))
        IN  /\ SubSeq(Value(error), 1, Len(ErrorPrefix)) = ErrorPrefix
            /\ t1 => message = ApiMessage
            /\ (~t1 /\ t2) => message = InvalidCodeMessage
            /\ (~t1 /\ ~t2 /\ t3) => message = ExtraTextMessage
            /\ (~t1 /\ ~t2 /\ ~t3 /\ t4) => message = NoChartMessage
            /\ (~t1 /\ ~t2 /\ ~t3 /\ ~t4) =>
                   message = Text("Unexpected error: ") \o text
                             \o Text(". Please try a different prompt or contact support.")
            /\ text \in {EmptyCodeText, MissingFigureText} => message = NoChartMessage
            /\ (execs = 1 /\ exc.type = "RuntimeError") => message = ApiMessage

C10_Witness ==
    /\ Ended
    /\ outcome = "failed"
    /\ calls = 1
    /\ execs = 1
    /\ exc = Raise("RuntimeError", TRUE, ApiQuotaText)
    /\ error = Some(ErrorPrefix \o ApiMessage)

=============================================================================
